---- MODULE Spec2Model ----
(***************************************************************************)
(* Movie review program (Solana on-chain program).                         *)
(*                                                                         *)
(* State: the host's account table (address -> owner, data).  One action   *)
(* per instruction of processor.rs (add_movie_review, update_movie_review, *)
(* add_comment, initialize_token_mint), each the whole handler: its checks *)
(* in source order, its cross-program calls (system create_account, token  *)
(* initialize_mint2 / mint_to) and its writes.  A handler runs on a        *)
(* working copy of the account table and returns [err, acc, log]; the host *)
(* commits the working copy only when err = "Ok".                          *)
(*                                                                         *)
(* Addresses are strings.  find_program_address is modelled as an          *)
(* injective function of its seed list (a collision-free hash); the bump   *)
(* byte is determined by the seeds and is left implicit.                   *)
(*                                                                         *)
(* Account data is kept as the record the buffer decodes to, together with *)
(* the buffer length: a created buffer is all zero, try_from_slice_        *)
(* unchecked of a zero buffer is the default record, and serialize fails   *)
(* when the encoding does not fit the buffer.                              *)
(***************************************************************************)
EXTENDS Integers, Sequences, FiniteSets, TLC

\* accounts:   the host's account table
\* used:       the (review, ordinal) pairs of the comments created
\* succeeded:  the numbers of AddReview and AddComment invocations that
\*             returned Ok
\* codec:      the last conversion between bytes and values: its kind, the
\*             value and the bytes it was given and what it returned
VARIABLES accounts, used, succeeded, codec

vars == <<accounts, used, succeeded, codec>>

(***************************************************************************)
(* Bounds of the model.                                                    *)
(***************************************************************************)
\* the largest number of review accounts in the table
MaxReviews == 1
\* the largest number of comment accounts in the table
MaxComments == 1

(***************************************************************************)
(* Program constants.                                                      *)
(***************************************************************************)
\* MovieAccountState::LEN, the fixed size of a review account
MovieAccountState_LEN == 1000
\* spl_token::state::Mint::LEN
Mint_LEN == 82
\* decimals passed to initialize_mint2
MintDecimals == 9
\* sol_to_lamports(1.0)
LAMPORTS_PER_SOL == 1000000000

MovieAccountState_DISCRIMINATOR == "review"
MovieCommentCounter_DISCRIMINATOR == "counter"
MovieComment_DISCRIMINATOR == "comment"

\* MovieCommentCounter::LEN, the size of a counter account
MovieCommentCounter_SIZE == (4 + Len(MovieCommentCounter_DISCRIMINATOR)) + 1 + 8

(***************************************************************************)
(* Identities.                                                             *)
(***************************************************************************)
program_id == "program"
SYSTEM_PROGRAM_ID == "system_program"
TOKEN_PROGRAM_ID == "token_program"
\* wallets (on-curve keys, able to sign)
Users == {"alice", "bob"}

\* Pubkey::find_program_address(seeds, program_id).0
find_program_address(seeds) ==
    "pda[" \o seeds[1] \o (IF Len(seeds) > 1 THEN "|" \o seeds[2] ELSE "") \o "]"

\* u64::to_be_bytes as a seed
to_be_bytes(n) == "be:" \o ToString(n)

\* spl_associated_token_account::get_associated_token_address(wallet, mint)
get_associated_token_address(wallet, mint) == "ata[" \o wallet \o "|" \o mint \o "]"

ReviewPDA(user, title) == find_program_address(<<user, title>>)
CounterPDA(review) == find_program_address(<<review, "comment">>)
CommentPDA(review, n) == find_program_address(<<review, to_be_bytes(n)>>)
MintPDA == find_program_address(<<"token_mint">>)
MintAuthPDA == find_program_address(<<"token_auth">>)

(***************************************************************************)
(* Strings of the inputs.                                                  *)
(***************************************************************************)
RECURSIVE Rep(_, _)
Rep(s, n) ==
    IF n = 0 THEN ""
    ELSE IF n % 2 = 0 THEN LET h == Rep(s, n \div 2) IN h \o h
    ELSE s \o Rep(s, n - 1)

\* a body that makes get_account_size(title, body) equal to n
BodyOfSize(title, n) == Rep("x", n - (52 + Len(title)))

Titles == {"Dune", "Up"}
Ratings == {0, 1, 5, 6}
Descriptions ==
    {"Great",
     BodyOfSize("Dune", MovieAccountState_LEN),
     BodyOfSize("Dune", MovieAccountState_LEN + 1)}
Comments == {"Agreed"}

(***************************************************************************)
(* The first eight bytes of a 32-byte key, read as a little-endian u64.    *)
(* A record of one kind decoded as another reads them as a number, and a   *)
(* write of that number changes them: the key k with its first eight bytes *)
(* raised by d is written k+d.                                             *)
(***************************************************************************)
\* the amounts by which the first eight bytes of a key can have been raised
Tweaks == 1 .. (2 * (MaxComments + 1))

\* the keys that records store
StoredKeys == Users \cup {ReviewPDA(u, t) : u \in Users, t \in Titles}

TweakedKey(b, d) == b \o "+" \o ToString(d)

IsTweaked(k) == \E b \in StoredKeys, d \in Tweaks : k = TweakedKey(b, d)

KeyBase(k) ==
    IF IsTweaked(k)
    THEN CHOOSE b \in StoredKeys : \E d \in Tweaks : k = TweakedKey(b, d)
    ELSE k

KeyTweak(k) ==
    IF IsTweaked(k)
    THEN CHOOSE d \in Tweaks : k = TweakedKey(KeyBase(k), d)
    ELSE 0

\* u64::from_le_bytes(key[0..8]) of a key as generated or derived: some
\* number far from the small ordinals, standing for the 64 bits of each key
KeyLow(b) ==
    CASE b = "alice" -> 100
      [] b = "bob" -> 200
      [] OTHER -> 300

pubkey_low_u64(k) == KeyLow(KeyBase(k)) + KeyTweak(k)

\* the key k with its first eight bytes replaced by the u64 n
pubkey_with_low_u64(k, n) ==
    LET b == KeyBase(k)
        d == n - KeyLow(b)
    IN  IF d = 0 THEN b ELSE TweakedKey(b, d)

(***************************************************************************)
(* state.rs: sizes.                                                        *)
(***************************************************************************)
MovieAccountState_get_account_size(title, description) ==
    (4 + Len(MovieAccountState_DISCRIMINATOR))
    + 1
    + 32
    + 1
    + (4 + Len(title))
    + (4 + Len(description))

MovieComment_get_account_size(comment) ==
    (4 + Len(MovieComment_DISCRIMINATOR))
    + 1
    + 32
    + 32
    + (4 + Len(comment))
    + 8

(***************************************************************************)
(* state.rs, instruction.rs: the borsh encoding, on bytes.  A string is a  *)
(* sequence of bytes, a key a sequence of 32 bytes, a u64 four 16-bit      *)
(* limbs, least significant first.                                         *)
(***************************************************************************)
\* the largest number of zero bytes that follow a record in its buffer
MaxPad == 1

Zeros(n) == [i \in 1..n |-> 0]

\* "review", "counter", "comment" in UTF-8
ReviewTag == <<114, 101, 118, 105, 101, 119>>
CounterTag == <<99, 111, 117, 110, 116, 101, 114>>
CommentTag == <<99, 111, 109, 109, 101, 110, 116>>

\* u32::to_le_bytes
u32_to_le_bytes(n) ==
    <<n % 256, (n \div 256) % 256, (n \div 65536) % 256,
      (n \div 16777216) % 256>>

\* a count written most significant byte first
u64_to_be_bytes(l) ==
    <<l[1] \div 256, l[1] % 256, l[2] \div 256, l[2] % 256,
      l[3] \div 256, l[3] % 256, l[4] \div 256, l[4] % 256>>

\* u64::to_le_bytes
u64_to_le_bytes(l) ==
    <<l[1] % 256, l[1] \div 256, l[2] % 256, l[2] \div 256,
      l[3] % 256, l[3] \div 256, l[4] % 256, l[4] \div 256>>

\* u64::from_le_bytes
u64_from_le_bytes(b) ==
    <<b[1] + 256 * b[2], b[3] + 256 * b[4],
      b[5] + 256 * b[6], b[7] + 256 * b[8]>>

\* core::str::from_utf8, for code points of one and two bytes (the strings
\* of the model hold no longer ones)
RECURSIVE IsUtf8(_)
IsUtf8(b) ==
    IF b = <<>> THEN TRUE
    ELSE IF b[1] < 128 THEN IsUtf8(Tail(b))
    ELSE IF b[1] \in 194..223 /\ Len(b) >= 2 /\ b[2] \in 128..191
    THEN IsUtf8(SubSeq(b, 3, Len(b)))
    ELSE FALSE

\* the outcome of reading one value off the front of a slice
Read(v, rest) == [ok |-> TRUE, v |-> v, rest |-> rest]
ReadFail == [ok |-> FALSE, v |-> <<>>, rest |-> <<>>]

\* BorshSerialize for String: the length as u32, then the bytes
write_string(str) == u32_to_le_bytes(Len(str)) \o str

\* BorshSerialize for bool
write_bool(b) == IF b THEN <<1>> ELSE <<0>>

\* BorshDeserialize for String: a length that runs past the slice, or bytes
\* that are not UTF-8, is an error.  No slice of the model has 65536 bytes,
\* so a length with a non-zero third or fourth byte runs past it.
read_string(b) ==
    IF Len(b) < 4 THEN ReadFail
    ELSE IF b[3] # 0 \/ b[4] # 0 THEN ReadFail
    ELSE LET n == b[1] + 256 * b[2] IN
         IF n > Len(b) - 4 THEN ReadFail
         ELSE IF ~IsUtf8(SubSeq(b, 5, 4 + n)) THEN ReadFail
         ELSE Read(SubSeq(b, 5, 4 + n), SubSeq(b, 5 + n, Len(b)))

\* BorshDeserialize for bool: only 0 and 1 are booleans
read_bool(b) ==
    IF Len(b) < 1 THEN ReadFail
    ELSE IF b[1] = 0 THEN Read(FALSE, Tail(b))
    ELSE IF b[1] = 1 THEN Read(TRUE, Tail(b))
    ELSE ReadFail

\* BorshDeserialize for u8
read_u8(b) == IF Len(b) < 1 THEN ReadFail ELSE Read(b[1], Tail(b))

\* BorshDeserialize for Pubkey ([u8; 32])
read_pubkey(b) ==
    IF Len(b) < 32 THEN ReadFail
    ELSE Read(SubSeq(b, 1, 32), SubSeq(b, 33, Len(b)))

\* BorshDeserialize for u64
read_u64(b) ==
    IF Len(b) < 8 THEN ReadFail
    ELSE Read(u64_from_le_bytes(SubSeq(b, 1, 8)), SubSeq(b, 9, Len(b)))

\* the outcome of decoding a whole value
Decoded(v) == [ok |-> TRUE, v |-> v]
DecodeFail(err) == [ok |-> FALSE, v |-> [kind |-> err]]

\* #[derive(BorshSerialize)] of MovieAccountState, MovieCommentCounter and
\* MovieComment: the fields in the order of the struct
encode(r) ==
    CASE r.kind = "review" ->
            write_string(r.discriminator) \o write_bool(r.is_initialized)
            \o r.reviewer \o <<r.rating>> \o write_string(r.title)
            \o write_string(r.description)
      [] r.kind = "counter" ->
            write_string(r.discriminator) \o write_bool(r.is_initialized)
            \o u64_to_le_bytes(r.counter)
      [] r.kind = "comment" ->
            write_string(r.discriminator) \o write_bool(r.is_initialized)
            \o r.review \o r.commenter \o write_string(r.comment)
            \o u64_to_le_bytes(r.count)

\* try_from_slice_unchecked::<MovieAccountState>(buf): the fields are read
\* in order and the bytes after the last are not looked at
decode_review(buf) ==
    LET f1 == read_string(buf) IN
    IF ~f1.ok THEN DecodeFail("BorshIoError") ELSE
    LET f2 == read_bool(f1.rest) IN
    IF ~f2.ok THEN DecodeFail("BorshIoError") ELSE
    LET f3 == read_pubkey(f2.rest) IN
    IF ~f3.ok THEN DecodeFail("BorshIoError") ELSE
    LET f4 == read_u8(f3.rest) IN
    IF ~f4.ok THEN DecodeFail("BorshIoError") ELSE
    LET f5 == read_string(f4.rest) IN
    IF ~f5.ok THEN DecodeFail("BorshIoError") ELSE
    LET f6 == read_string(f5.rest) IN
    IF ~f6.ok THEN DecodeFail("BorshIoError") ELSE
    Decoded([kind |-> "review", discriminator |-> f1.v,
             is_initialized |-> f2.v, reviewer |-> f3.v, rating |-> f4.v,
             title |-> f5.v, description |-> f6.v])

\* try_from_slice_unchecked::<MovieCommentCounter>(buf)
decode_counter(buf) ==
    LET f1 == read_string(buf) IN
    IF ~f1.ok THEN DecodeFail("BorshIoError") ELSE
    LET f2 == read_bool(f1.rest) IN
    IF ~f2.ok THEN DecodeFail("BorshIoError") ELSE
    LET f3 == read_u64(f2.rest) IN
    IF ~f3.ok THEN DecodeFail("BorshIoError") ELSE
    Decoded([kind |-> "counter", discriminator |-> f1.v,
             is_initialized |-> f2.v, counter |-> f3.v])

\* try_from_slice_unchecked::<MovieComment>(buf)
decode_comment(buf) ==
    LET f1 == read_string(buf) IN
    IF ~f1.ok THEN DecodeFail("BorshIoError") ELSE
    LET f2 == read_bool(f1.rest) IN
    IF ~f2.ok THEN DecodeFail("BorshIoError") ELSE
    LET f3 == read_pubkey(f2.rest) IN
    IF ~f3.ok THEN DecodeFail("BorshIoError") ELSE
    LET f4 == read_pubkey(f3.rest) IN
    IF ~f4.ok THEN DecodeFail("BorshIoError") ELSE
    LET f5 == read_string(f4.rest) IN
    IF ~f5.ok THEN DecodeFail("BorshIoError") ELSE
    LET f6 == read_u64(f5.rest) IN
    IF ~f6.ok THEN DecodeFail("BorshIoError") ELSE
    Decoded([kind |-> "comment", discriminator |-> f1.v,
             is_initialized |-> f2.v, review |-> f3.v, commenter |-> f4.v,
             comment |-> f5.v, count |-> f6.v])

\* MovieReviewPayload::try_from_slice(rest): title, rating, description,
\* and no byte may be left
MovieReviewPayload_try_from_slice(rest) ==
    LET f1 == read_string(rest) IN
    IF ~f1.ok THEN DecodeFail("BorshIoError") ELSE
    LET f2 == read_u8(f1.rest) IN
    IF ~f2.ok THEN DecodeFail("BorshIoError") ELSE
    LET f3 == read_string(f2.rest) IN
    IF ~f3.ok THEN DecodeFail("BorshIoError") ELSE
    IF f3.rest # <<>> THEN DecodeFail("BorshIoError") ELSE
    Decoded([title |-> f1.v, rating |-> f2.v, description |-> f3.v])

\* CommentPayload::try_from_slice(rest)
CommentPayload_try_from_slice(rest) ==
    LET f1 == read_string(rest) IN
    IF ~f1.ok THEN DecodeFail("BorshIoError") ELSE
    IF f1.rest # <<>> THEN DecodeFail("BorshIoError") ELSE
    Decoded([comment |-> f1.v])

\* MovieInstruction::unpack(input)
unpack(input) ==
    IF input = <<>> THEN DecodeFail("InvalidInstructionData")
    ELSE
    LET discriminator == Head(input)
        rest == Tail(input)
    IN  CASE discriminator = 0 ->
                LET payload == MovieReviewPayload_try_from_slice(rest) IN
                IF ~payload.ok THEN DecodeFail("InvalidInstructionData")
                ELSE Decoded([kind |-> "AddMovieReview",
                              title |-> payload.v.title,
                              rating |-> payload.v.rating,
                              description |-> payload.v.description])
          [] discriminator = 1 ->
                LET payload == MovieReviewPayload_try_from_slice(rest) IN
                IF ~payload.ok THEN DecodeFail("InvalidInstructionData")
                ELSE Decoded([kind |-> "UpdateMovieReview",
                              title |-> payload.v.title,
                              rating |-> payload.v.rating,
                              description |-> payload.v.description])
          [] discriminator = 2 ->
                LET payload == CommentPayload_try_from_slice(rest) IN
                IF ~payload.ok THEN DecodeFail("InvalidInstructionData")
                ELSE Decoded([kind |-> "AddComment",
                              comment |-> payload.v.comment])
          [] OTHER -> DecodeFail("InvalidInstructionData")

(***************************************************************************)
(* Account data.                                                           *)
(***************************************************************************)
\* a buffer of len zero bytes, as create_account leaves it
ZeroData(len) == [kind |-> "zero", len |-> len]

\* an address with no account: owned by the system program, no data
NoAccount == [owner |-> SYSTEM_PROGRAM_ID, data |-> ZeroData(0)]

Account(acc, key) == IF key \in DOMAIN acc THEN acc[key] ELSE NoAccount

\* the table acc with key bound to account a
Put(acc, key, a) ==
    [k \in (DOMAIN acc) \cup {key} |-> IF k = key THEN a ELSE acc[k]]

\* the encoded size of each record kind (borsh: u32 length + bytes for a
\* String, 1 byte for bool and u8, 32 for a Pubkey, 8 for u64)
EncodedSize(d) ==
    CASE d.kind = "review" ->
            (4 + Len(d.discriminator)) + 1 + 32 + 1
            + (4 + Len(d.title)) + (4 + Len(d.description))
      [] d.kind = "counter" -> (4 + Len(d.discriminator)) + 1 + 8
      [] d.kind = "comment" ->
            (4 + Len(d.discriminator)) + 1 + 32 + 32 + (4 + Len(d.comment)) + 8
      [] OTHER -> 0

\* try_from_slice_unchecked::<MovieAccountState>: a zero buffer long enough
\* for the fixed part decodes to the default record; trailing bytes are
\* ignored
DecodeReview(d) ==
    IF d.kind = "review" THEN [ok |-> TRUE, v |-> d]
    ELSE IF d.kind = "zero" /\ d.len >= 4 + 1 + 32 + 1 + 4 + 4
    THEN [ok |-> TRUE,
          v |-> [kind |-> "review", len |-> d.len, discriminator |-> "",
                 is_initialized |-> FALSE, reviewer |-> "", rating |-> 0,
                 title |-> "", description |-> ""]]
    ELSE IF d.kind = "counter"
            /\ d.len >= (4 + Len(d.discriminator)) + 1 + 32 + 1 + 4 + 4
    \* a counter record at the head of a longer zero buffer: its count is
    \* read as the first bytes of the reviewer, the zero bytes after it as
    \* the rest
    THEN [ok |-> TRUE,
          v |-> [kind |-> "review", len |-> d.len,
                 discriminator |-> d.discriminator,
                 is_initialized |-> d.is_initialized,
                 reviewer |-> "zero+" \o ToString(d.counter), rating |-> 0,
                 title |-> "", description |-> ""]]
    \* a counter account of its own size is too short for a review, and the
    \* bytes of a comment's commenter key, read as the length of a title,
    \* run past the end of the buffer
    ELSE [ok |-> FALSE, v |-> d]

\* try_from_slice_unchecked::<MovieCommentCounter>; bytes after the record
\* are ignored
DecodeCounter(d) ==
    IF d.kind = "counter" THEN [ok |-> TRUE, v |-> d]
    ELSE IF d.kind = "zero" /\ d.len >= 4 + 1 + 8
    THEN [ok |-> TRUE,
          v |-> [kind |-> "counter", len |-> d.len, discriminator |-> "",
                 is_initialized |-> FALSE, counter |-> 0]]
    \* the three records start alike (discriminator: String, is_initialized:
    \* bool); the eight bytes that follow are the first bytes of the
    \* reviewer of a review and of the review key of a comment
    ELSE IF d.kind = "review"
    THEN [ok |-> TRUE,
          v |-> [kind |-> "counter", len |-> d.len,
                 discriminator |-> d.discriminator,
                 is_initialized |-> d.is_initialized,
                 counter |-> pubkey_low_u64(d.reviewer)]]
    ELSE IF d.kind = "comment"
    THEN [ok |-> TRUE,
          v |-> [kind |-> "counter", len |-> d.len,
                 discriminator |-> d.discriminator,
                 is_initialized |-> d.is_initialized,
                 counter |-> pubkey_low_u64(d.review)]]
    ELSE [ok |-> FALSE, v |-> d]

\* try_from_slice_unchecked::<MovieComment>
DecodeComment(d) ==
    IF d.kind = "comment" THEN [ok |-> TRUE, v |-> d]
    ELSE IF d.kind = "zero" /\ d.len >= 4 + 1 + 32 + 32 + 4 + 8
    THEN [ok |-> TRUE,
          v |-> [kind |-> "comment", len |-> d.len, discriminator |-> "",
                 is_initialized |-> FALSE, review |-> "", commenter |-> "",
                 comment |-> "", count |-> 0]]
    ELSE [ok |-> FALSE, v |-> d]

\* a write that is never refused for want of room
SerializeFits_unchecked(d) == TRUE

\* serialize(&mut &mut data[..]): fails when the encoding is longer than
\* the buffer
SerializeFits(d) == EncodedSize(d) <= d.len

(***************************************************************************)
(* The result of a handler: its error, the working copy of the accounts    *)
(* and the log of its side effects so far.                                 *)
(***************************************************************************)
Result(err, acc, log) == [err |-> err, acc |-> acc, log |-> log]

Log(ev, key, amount) == [ev |-> ev, key |-> key, amount |-> amount]

(***************************************************************************)
(* The system program and the token program, as the handlers call them.    *)
(***************************************************************************)
\* create_account without the check that the address is free: the account
\* is replaced by a fresh zeroed buffer
create_account_overwrite(acc, log, from_signer, to, seeds, space, owner) ==
    IF ~from_signer THEN Result("MissingRequiredSignature", acc, log)
    ELSE IF find_program_address(seeds) # to
    THEN Result("MissingRequiredSignature", acc, log)
    ELSE Result("Ok",
                Put(acc, to, [owner |-> owner, data |-> ZeroData(space)]),
                Append(log, Log("create", to, space)))

\* invoke_signed(system_instruction::create_account(from, to, lamports,
\* space, owner), .., seeds): from must have signed the transaction, to
\* must sign (here by the seeds of its derived address), and to must not be
\* in use; the new buffer is space zero bytes owned by owner.  The payer is
\* taken to hold the rent.
create_account(acc, log, from_signer, to, seeds, space, owner) ==
    IF ~from_signer THEN Result("MissingRequiredSignature", acc, log)
    ELSE IF find_program_address(seeds) # to
    THEN Result("MissingRequiredSignature", acc, log)
    ELSE IF to \in DOMAIN acc THEN Result("AccountAlreadyInUse", acc, log)
    ELSE Result("Ok",
                Put(acc, to, [owner |-> owner, data |-> ZeroData(space)]),
                Append(log, Log("create", to, space)))

\* Amounts of base units are u64; they are kept as two digits in base
\* LAMPORTS_PER_SOL (giga * 10^9 + units), which the checker's integers hold.
ZeroAmount == [giga |-> 0, units |-> 0]

AddAmount(a, b) ==
    [giga |-> a.giga + b.giga + ((a.units + b.units) \div LAMPORTS_PER_SOL),
     units |-> (a.units + b.units) % LAMPORTS_PER_SOL]

\* invoke_signed(initialize_mint2(token_program, mint, mint_authority, None,
\* decimals)): the mint buffer must be an uninitialized one of the token
\* program
initialize_mint2(acc, log, mint, mint_authority, decimals) ==
    LET a == Account(acc, mint) IN
    IF a.owner # TOKEN_PROGRAM_ID \/ a.data.kind # "zero"
    THEN Result("TokenError", acc, log)
    ELSE Result("Ok",
                Put(acc, mint,
                    [a EXCEPT !.data =
                        [kind |-> "mint", len |-> a.data.len,
                         is_initialized |-> TRUE,
                         mint_authority |-> mint_authority,
                         supply |-> ZeroAmount, decimals |-> decimals]]),
                Append(log, Log("initialize_mint", mint, 0)))

\* invoke_signed(mint_to(token_program, mint, destination, authority, [],
\* amount), .., seeds of the authority): the token program mints only from
\* an initialized mint, into a token account of that mint, on the signature
\* of the mint's authority
\* The log keeps the call ("invoke_mint_to") whatever its outcome, and the
\* minting ("mint_to") when it succeeds.
mint_to(acc, log, mint, destination, authority, seeds, amount) ==
    LET m == Account(acc, mint)
        d == Account(acc, destination)
        called == Append(log, Log("invoke_mint_to", destination, amount.giga))
    IN  IF m.owner # TOKEN_PROGRAM_ID \/ m.data.kind # "mint"
        THEN Result("TokenError", acc, called)
        ELSE IF d.owner # TOKEN_PROGRAM_ID \/ d.data.kind # "token"
        THEN Result("TokenError", acc, called)
        ELSE IF d.data.mint # mint THEN Result("TokenError", acc, called)
        ELSE IF m.data.mint_authority # authority
        THEN Result("TokenError", acc, called)
        ELSE IF find_program_address(seeds) # authority
        THEN Result("MissingRequiredSignature", acc, called)
        ELSE Result("Ok",
                    Put(Put(acc, mint,
                            [m EXCEPT !.data.supply = AddAmount(@, amount)]),
                        destination,
                        [d EXCEPT !.data.amount = AddAmount(@, amount)]),
                    Append(called, Log("mint_to", destination, amount.giga)))

\* the buffer old after the encoding of record is written over its first
\* bytes: the bytes after the encoding stay.  A counter record written over
\* a review or a comment with the same discriminator replaces the flag and
\* the first eight bytes of the key that follows it.
Overlay(old, record) ==
    IF record.kind = "counter" /\ old.kind = "review"
       /\ record.discriminator = old.discriminator
    THEN [old EXCEPT !.is_initialized = record.is_initialized,
                     !.reviewer = pubkey_with_low_u64(@, record.counter)]
    ELSE IF record.kind = "counter" /\ old.kind = "comment"
            /\ record.discriminator = old.discriminator
    THEN [old EXCEPT !.is_initialized = record.is_initialized,
                     !.review = pubkey_with_low_u64(@, record.counter)]
    ELSE record

\* record.serialize(&mut &mut account.data.borrow_mut()[..])
serialize(acc, log, key, record) ==
    IF ~SerializeFits(record) THEN Result("BorshIoError", acc, log)
    ELSE Result("Ok",
                Put(acc, key,
                    [Account(acc, key) EXCEPT
                        !.data = Overlay(Account(acc, key).data, record)]),
                Append(log, Log("write", key, 0)))

\* a conversion that doubles the amount
sol_to_lamports_double(sol) == [giga |-> 2 * sol, units |-> 0]

\* sol_to_lamports(sol) for a whole number of tokens: sol * 10^9 base units
sol_to_lamports(sol) == [giga |-> sol, units |-> 0]

(***************************************************************************)
(* processor.rs: add_movie_review.                                         *)
(* in: initializer, is_signer, title, rating, description, pda_account,    *)
(*     pda_counter, token_mint, mint_auth, user_ata, token_program         *)
(***************************************************************************)
\* a handler that does not look at the signer flag
add_signer_missing_ignored(in) == FALSE

\* if !initializer.is_signer
add_signer_missing(in) == ~in.is_signer

\* the rating check without its lower bound
add_rating_invalid_upper_only(rating) == rating > 5

\* if rating > 5 || rating < 1
add_rating_invalid(rating) == rating > 5 \/ rating < 1

\* the size check off by one
add_length_invalid_off_by_one(title, description) ==
    MovieAccountState_get_account_size(title, description)
        > MovieAccountState_LEN + 1

\* if get_account_size(title, description) > MovieAccountState::LEN
add_length_invalid(title, description) ==
    MovieAccountState_get_account_size(title, description) > MovieAccountState_LEN

\* the mint checks without the check of the destination account
mint_reward_without_ata_check(r, in, owner, amount) ==
    LET mint_pda == find_program_address(<<"token_mint">>)
        mint_auth_pda == find_program_address(<<"token_auth">>)
    IN  IF mint_pda # in.token_mint
        THEN Result("IncorrectAccount", r.acc, r.log)
        ELSE IF mint_auth_pda # in.mint_auth
        THEN Result("InvalidPDA", r.acc, r.log)
        ELSE IF TOKEN_PROGRAM_ID # in.token_program
        THEN Result("IncorrectAccount", r.acc, r.log)
        ELSE mint_to(r.acc, r.log, in.token_mint, in.user_ata, in.mint_auth,
                     <<"token_auth">>, sol_to_lamports(amount))

\* the mint checks without the check of the mint authority
mint_reward_without_auth_check(r, in, owner, amount) ==
    LET mint_pda == find_program_address(<<"token_mint">>)
    IN  IF mint_pda # in.token_mint
        THEN Result("IncorrectAccount", r.acc, r.log)
        ELSE IF get_associated_token_address(owner, in.token_mint) # in.user_ata
        THEN Result("IncorrectAccount", r.acc, r.log)
        ELSE IF TOKEN_PROGRAM_ID # in.token_program
        THEN Result("IncorrectAccount", r.acc, r.log)
        ELSE mint_to(r.acc, r.log, in.token_mint, in.user_ata, in.mint_auth,
                     <<"token_auth">>, sol_to_lamports(amount))

\* the mint checks and the mint_to call that end add_movie_review and
\* add_comment
mint_reward(r, in, owner, amount) ==
    LET mint_pda == find_program_address(<<"token_mint">>)
        mint_auth_pda == find_program_address(<<"token_auth">>)
    IN  IF mint_pda # in.token_mint
        THEN Result("IncorrectAccount", r.acc, r.log)
        ELSE IF mint_auth_pda # in.mint_auth
        THEN Result("InvalidPDA", r.acc, r.log)
        ELSE IF get_associated_token_address(owner, in.token_mint) # in.user_ata
        THEN Result("IncorrectAccount", r.acc, r.log)
        ELSE IF TOKEN_PROGRAM_ID # in.token_program
        THEN Result("IncorrectAccount", r.acc, r.log)
        ELSE mint_to(r.acc, r.log, in.token_mint, in.user_ata, in.mint_auth,
                     <<"token_auth">>, sol_to_lamports(amount))

\* a counter that is populated without its flag
add_counter_fields_uninitialized(counter_data) ==
    [counter_data EXCEPT !.discriminator = MovieCommentCounter_DISCRIMINATOR,
                         !.counter = 0]

\* counter_data.discriminator = ..; .counter = 0; .is_initialized = true
add_counter_fields(counter_data) ==
    [counter_data EXCEPT !.discriminator = MovieCommentCounter_DISCRIMINATOR,
                         !.counter = 0,
                         !.is_initialized = TRUE]

\* the second half of add_movie_review: the comment counter and the reward
add_movie_review_counter(r, in, pda) ==
    LET counter == find_program_address(<<pda, "comment">>) IN
    IF counter # in.pda_counter THEN Result("InvalidPDA", r.acc, r.log)
    ELSE
    LET c == create_account(r.acc, r.log, in.is_signer, in.pda_counter,
                            <<pda, "comment">>, MovieCommentCounter_SIZE,
                            program_id)
    IN
    IF c.err # "Ok" THEN c
    ELSE
    LET dec == DecodeCounter(Account(c.acc, in.pda_counter).data) IN
    IF ~dec.ok THEN Result("BorshIoError", c.acc, c.log)
    ELSE IF dec.v.is_initialized
    THEN Result("AccountAlreadyInitialized", c.acc, c.log)
    ELSE
    LET counter_data == add_counter_fields(dec.v)
        w == serialize(c.acc, c.log, in.pda_counter, counter_data)
    IN
    IF w.err # "Ok" THEN w
    ELSE mint_reward(w, in, in.initializer, 10)

\* a review that is populated without its rating
add_fields_without_rating(account_data, in) ==
    [account_data EXCEPT !.discriminator = MovieAccountState_DISCRIMINATOR,
                         !.reviewer = in.initializer,
                         !.title = in.title,
                         !.description = in.description,
                         !.is_initialized = TRUE]

\* account_data.discriminator = ..; .reviewer = ..; .title = ..;
\* .rating = ..; .description = ..; .is_initialized = true
add_fields(account_data, in) ==
    [account_data EXCEPT !.discriminator = MovieAccountState_DISCRIMINATOR,
                         !.reviewer = in.initializer,
                         !.title = in.title,
                         !.rating = in.rating,
                         !.description = in.description,
                         !.is_initialized = TRUE]

add_movie_review(acc, in) ==
    IF add_signer_missing(in)
    THEN Result("MissingRequiredSignature", acc, <<>>)
    ELSE
    LET pda == find_program_address(<<in.initializer, in.title>>) IN
    IF pda # in.pda_account THEN Result("InvalidPDA", acc, <<>>)
    ELSE IF add_rating_invalid(in.rating) THEN Result("InvalidRating", acc, <<>>)
    ELSE IF add_length_invalid(in.title, in.description)
    THEN Result("InvalidDataLength", acc, <<>>)
    ELSE
    LET c == create_account(acc, <<>>, in.is_signer, in.pda_account,
                            <<in.initializer, in.title>>,
                            MovieAccountState_LEN, program_id)
    IN
    IF c.err # "Ok" THEN c
    ELSE
    LET dec == DecodeReview(Account(c.acc, in.pda_account).data) IN
    IF ~dec.ok THEN Result("BorshIoError", c.acc, c.log)
    ELSE IF dec.v.is_initialized
    THEN Result("AccountAlreadyInitialized", c.acc, c.log)
    ELSE
    LET account_data == add_fields(dec.v, in)
        w == serialize(c.acc, c.log, in.pda_account, account_data)
    IN
    IF w.err # "Ok" THEN w
    ELSE add_movie_review_counter(w, in, pda)

(***************************************************************************)
(* processor.rs: update_movie_review.                                      *)
(* in: initializer, is_signer, title, rating, description, pda_account     *)
(***************************************************************************)
\* the rating check without its lower bound
update_rating_invalid_upper_only(rating) == rating > 5

\* if rating > 5 || rating < 1
update_rating_invalid(rating) == rating > 5 \/ rating < 1

\* an update that also stores the title of the request
update_fields_and_title(account_data, in) ==
    [account_data EXCEPT !.rating = in.rating,
                         !.description = in.description,
                         !.title = in.title]

\* an update that keeps the stored body
update_fields_rating_only(account_data, in) ==
    [account_data EXCEPT !.rating = in.rating]

\* account_data.rating = rating; account_data.description = description
update_fields(account_data, in) ==
    [account_data EXCEPT !.rating = in.rating,
                         !.description = in.description]

\* seeds that take the author from the record instead of the signer
update_seeds_stored_reviewer(initializer, account_data) ==
    <<account_data.reviewer, account_data.title>>

\* &[initializer.key.as_ref(), account_data.title.as_bytes().as_ref()]
update_seeds(initializer, account_data) == <<initializer, account_data.title>>

update_movie_review(acc, in) ==
    IF Account(acc, in.pda_account).owner # program_id
    THEN Result("InvalidAccountOwner", acc, <<>>)
    ELSE IF ~in.is_signer THEN Result("MissingRequiredSignature", acc, <<>>)
    ELSE
    LET dec == DecodeReview(Account(acc, in.pda_account).data) IN
    IF ~dec.ok THEN Result("BorshIoError", acc, <<>>)
    ELSE
    LET pda == find_program_address(update_seeds(in.initializer, dec.v)) IN
    IF pda # in.pda_account THEN Result("InvalidPDA", acc, <<>>)
    ELSE IF ~dec.v.is_initialized THEN Result("UninitializedAccount", acc, <<>>)
    ELSE IF update_rating_invalid(in.rating)
    THEN Result("InvalidRating", acc, <<>>)
    ELSE IF MovieAccountState_get_account_size(in.title, in.description)
            > MovieAccountState_LEN
    THEN Result("InvalidDataLength", acc, <<>>)
    ELSE serialize(acc, <<>>, in.pda_account, update_fields(dec.v, in))

(***************************************************************************)
(* processor.rs: add_comment.                                              *)
(* in: commenter, is_signer, comment, pda_review, pda_counter, pda_comment,*)
(*     token_mint, mint_auth, user_ata, token_program                      *)
(***************************************************************************)
\* an increment by two
increment_by_two(counter) == counter + 2

\* a decrement
decrement(counter) == counter - 1

\* counter_data.counter += 1
increment(counter) == counter + 1

\* the seeds of the comment account
comment_seeds(pda_review, counter) == <<pda_review, to_be_bytes(counter)>>

add_comment(acc, in) ==
    LET cdec == DecodeCounter(Account(acc, in.pda_counter).data) IN
    IF ~cdec.ok THEN Result("BorshIoError", acc, <<>>)
    ELSE
    LET counter_data == cdec.v
        account_len == MovieComment_get_account_size(in.comment)
        pda == find_program_address(
                   comment_seeds(in.pda_review, counter_data.counter))
    IN
    IF pda # in.pda_comment THEN Result("InvalidPDA", acc, <<>>)
    ELSE
    LET c == create_account(acc, <<>>, in.is_signer, in.pda_comment,
                            comment_seeds(in.pda_review, counter_data.counter),
                            account_len, program_id)
    IN
    IF c.err # "Ok" THEN c
    ELSE
    LET dec == DecodeComment(Account(c.acc, in.pda_comment).data) IN
    IF ~dec.ok THEN Result("BorshIoError", c.acc, c.log)
    ELSE IF dec.v.is_initialized
    THEN Result("AccountAlreadyInitialized", c.acc, c.log)
    ELSE
    LET comment_data ==
            [dec.v EXCEPT !.discriminator = MovieComment_DISCRIMINATOR,
                          !.review = in.pda_review,
                          !.commenter = in.commenter,
                          !.comment = in.comment,
                          !.is_initialized = TRUE]
        w == serialize(c.acc, c.log, in.pda_comment, comment_data)
    IN
    IF w.err # "Ok" THEN w
    ELSE
    LET w2 == serialize(w.acc, w.log, in.pda_counter,
                        [counter_data EXCEPT
                            !.counter = increment(counter_data.counter)])
    IN
    IF w2.err # "Ok" THEN w2
    ELSE mint_reward(w2, in, in.commenter, 5)

(***************************************************************************)
(* processor.rs: initialize_token_mint.                                    *)
(* in: initializer, is_signer, token_mint, mint_auth, token_program        *)
(***************************************************************************)
initialize_token_mint(acc, in) ==
    LET mint_pda == find_program_address(<<"token_mint">>)
        mint_auth_pda == find_program_address(<<"token_auth">>)
    IN
    IF mint_pda # in.token_mint THEN Result("IncorrectAccount", acc, <<>>)
    ELSE IF TOKEN_PROGRAM_ID # in.token_program
    THEN Result("IncorrectAccount", acc, <<>>)
    ELSE IF mint_auth_pda # in.mint_auth
    THEN Result("IncorrectAccount", acc, <<>>)
    ELSE
    LET c == create_account(acc, <<>>, in.is_signer, in.token_mint,
                            <<"token_mint">>, Mint_LEN, in.token_program)
    IN
    IF c.err # "Ok" THEN c
    ELSE initialize_mint2(c.acc, c.log, in.token_mint, in.mint_auth,
                          MintDecimals)

(***************************************************************************)
(* processor.rs: process_instruction, on a decoded instruction             *)
(* [op, in].                                                               *)
(***************************************************************************)
process_instruction(acc, instruction) ==
    CASE instruction.op = "AddMovieReview" ->
            add_movie_review(acc, instruction.in)
      [] instruction.op = "UpdateMovieReview" ->
            update_movie_review(acc, instruction.in)
      [] instruction.op = "AddComment" -> add_comment(acc, instruction.in)
      [] instruction.op = "InitializeMint" ->
            initialize_token_mint(acc, instruction.in)

(***************************************************************************)
(* The host.                                                               *)
(***************************************************************************)
\* a host that keeps the writes of a failed invocation
Commit_keep_partial(acc, r) == r.acc

\* an invocation that returns an error leaves no trace: the host keeps the
\* account table it had before
Commit(acc, r) == IF r.err = "Ok" THEN r.acc ELSE acc

\* create_associated_token_account(payer, wallet, mint, spl_token::ID), the
\* instruction the tests send before add_movie_review: the token account of
\* wallet for an initialized mint
create_associated_token_account(acc, wallet, mint) ==
    LET ata == get_associated_token_address(wallet, mint)
        m == Account(acc, mint)
    IN  IF m.owner # TOKEN_PROGRAM_ID \/ m.data.kind # "mint"
        THEN Result("TokenError", acc, <<>>)
        ELSE IF ata \in DOMAIN acc THEN Result("AccountAlreadyInUse", acc, <<>>)
        ELSE Result("Ok",
                    Put(acc, ata,
                        [owner |-> TOKEN_PROGRAM_ID,
                         data |-> [kind |-> "token", mint |-> mint,
                                   owner |-> wallet, amount |-> ZeroAmount]]),
                    <<Log("create", ata, 0)>>)

\* the address of an account a client creates for itself
StrayKey == "stray"

\* the account-creation service called by a client directly: a fresh zeroed
\* buffer at the client's own (non-derived) address, owned by this program
client_create_account(acc, key, space) ==
    IF key \in DOMAIN acc THEN Result("AccountAlreadyInUse", acc, <<>>)
    ELSE Result("Ok",
                Put(acc, key, [owner |-> program_id, data |-> ZeroData(space)]),
                <<Log("create", key, space)>>)

(***************************************************************************)
(* The inputs of the invocations: every signer, title, rating and body,    *)
(* with the accounts the client should pass or with one of them wrong.     *)
(***************************************************************************)
Other(u) == CHOOSE v \in Users : v # u

ReviewAddrs == {ReviewPDA(u, t) : u \in Users, t \in Titles}

\* the ways an account list departs from the right one
RewardFaults == {"token_mint", "mint_auth", "user_ata", "token_program"}

\* token_mint, mint_auth, user_ata, token_program of an invocation by owner
WithFault(in, owner, f) ==
    CASE f = "none" -> in
      [] f = "unsigned" -> [in EXCEPT !.is_signer = FALSE]
      [] f = "token_mint" -> [in EXCEPT !.token_mint = "other_mint"]
      [] f = "mint_auth" -> [in EXCEPT !.mint_auth = "other_auth"]
      [] f = "user_ata" ->
            [in EXCEPT !.user_ata =
                get_associated_token_address(Other(owner), MintPDA)]
      [] f = "token_program" ->
            [in EXCEPT !.token_program = "other_token_program"]
      [] f = "pda_account" ->
            [in EXCEPT !.pda_account = ReviewPDA(Other(owner), in.title)]
      [] f = "pda_counter" ->
            [in EXCEPT !.pda_counter =
                CounterPDA(ReviewPDA(Other(owner), in.title))]

AddReviewInputs ==
    { WithFault(
        [initializer |-> u, is_signer |-> TRUE, title |-> t, rating |-> r,
         description |-> d, pda_account |-> ReviewPDA(u, t),
         pda_counter |-> CounterPDA(ReviewPDA(u, t)),
         token_mint |-> MintPDA, mint_auth |-> MintAuthPDA,
         user_ata |-> get_associated_token_address(u, MintPDA),
         token_program |-> TOKEN_PROGRAM_ID], u, f)
      : u \in Users, t \in Titles, r \in Ratings, d \in Descriptions,
        f \in {"none", "unsigned", "pda_account", "pda_counter"}
              \cup RewardFaults }

\* the program-owned accounts of the table
ProgramOwned(acc) == {k \in DOMAIN acc : acc[k].owner = program_id}

UpdateReviewInputs(acc) ==
    { [initializer |-> u, is_signer |-> s, title |-> t, rating |-> r,
       description |-> d, pda_account |-> p]
      : u \in Users, s \in BOOLEAN, t \in Titles, r \in Ratings,
        d \in Descriptions, p \in ReviewAddrs \cup ProgramOwned(acc) }

\* the counter values a client may have read or guessed: small ordinals,
\* and the number in the first bytes of a wallet's key
Ordinals == (0 .. (MaxComments + 1)) \cup {pubkey_low_u64(u) : u \in Users}

\* the accounts a client may pass as the counter: a counter, an account of
\* its own, or a review
CounterAddrs ==
    {CounterPDA(p) : p \in ReviewAddrs} \cup {StrayKey} \cup ReviewAddrs

AddCommentInputs ==
    { WithFault(
        [commenter |-> u, is_signer |-> TRUE, comment |-> cm,
         pda_review |-> rv, pda_counter |-> ct,
         pda_comment |-> CommentPDA(rv, n),
         token_mint |-> MintPDA, mint_auth |-> MintAuthPDA,
         user_ata |-> get_associated_token_address(u, MintPDA),
         token_program |-> TOKEN_PROGRAM_ID], u, f)
      : u \in Users, cm \in Comments, rv \in ReviewAddrs, ct \in CounterAddrs,
        n \in Ordinals, f \in {"none", "unsigned"} \cup RewardFaults }

InitializeMintInputs ==
    { WithFault(
        [initializer |-> u, is_signer |-> TRUE, token_mint |-> MintPDA,
         mint_auth |-> MintAuthPDA, token_program |-> TOKEN_PROGRAM_ID], u, f)
      : u \in Users,
        f \in {"none", "unsigned", "token_mint", "mint_auth", "token_program"} }

(***************************************************************************)
(* The state machine.                                                      *)
(***************************************************************************)
Reviews(acc) == {k \in DOMAIN acc : acc[k].data.kind = "review"}
CommentAccounts(acc) == {k \in DOMAIN acc : acc[k].data.kind = "comment"}

\* the value of the counter record in the account at key (-1: none decodes)
CounterOf(acc, key) ==
    LET dec == DecodeCounter(Account(acc, key).data) IN
    IF dec.ok THEN dec.v.counter ELSE -1

\* every instruction a client can send in the state acc
Instructions(acc) ==
    {[op |-> "AddMovieReview", in |-> in] : in \in AddReviewInputs}
    \cup {[op |-> "UpdateMovieReview", in |-> in] : in \in UpdateReviewInputs(acc)}
    \cup {[op |-> "AddComment", in |-> in] : in \in AddCommentInputs}
    \cup {[op |-> "InitializeMint", in |-> in] : in \in InitializeMintInputs}

\* no conversion yet
NoCodec == [op |-> "none", rec |-> [kind |-> "none"], bytes |-> <<>>,
            out |-> [ok |-> FALSE, v |-> [kind |-> "none"]]]

Init ==
    /\ accounts = [k \in {} |-> NoAccount]
    /\ used = {}
    /\ succeeded = [reviews |-> 0, comments |-> 0]
    /\ codec = NoCodec

AddReview ==
    \E in \in AddReviewInputs :
        LET r == process_instruction(accounts,
                     [op |-> "AddMovieReview", in |-> in])
        IN
        /\ accounts' = Commit(accounts, r)
        /\ Cardinality(Reviews(accounts')) <= MaxReviews
        /\ succeeded' = IF r.err = "Ok"
                        THEN [succeeded EXCEPT !.reviews = @ + 1]
                        ELSE succeeded
        /\ UNCHANGED <<used, codec>>

UpdateReview ==
    \E in \in UpdateReviewInputs(accounts) :
        /\ accounts' = Commit(accounts,
               process_instruction(accounts,
                   [op |-> "UpdateMovieReview", in |-> in]))
        /\ UNCHANGED <<used, succeeded, codec>>

\* used records the (review address, ordinal) of every comment created
AddComment ==
    \E in \in AddCommentInputs :
        LET r == process_instruction(accounts,
                     [op |-> "AddComment", in |-> in])
        IN
        /\ accounts' = Commit(accounts, r)
        /\ Cardinality(CommentAccounts(accounts')) <= MaxComments
        /\ used' = IF r.err = "Ok"
                   THEN used \cup {<<in.pda_review,
                                     CounterOf(accounts, in.pda_counter)>>}
                   ELSE used
        /\ succeeded' = IF r.err = "Ok"
                        THEN [succeeded EXCEPT !.comments = @ + 1]
                        ELSE succeeded
        /\ UNCHANGED codec

InitializeMint ==
    \E in \in InitializeMintInputs :
        /\ accounts' = Commit(accounts,
               process_instruction(accounts,
                   [op |-> "InitializeMint", in |-> in]))
        /\ UNCHANGED <<used, succeeded, codec>>

CreateAssociatedTokenAccount ==
    \E u \in Users :
        /\ accounts' = Commit(accounts,
               create_associated_token_account(accounts, u, MintPDA))
        /\ UNCHANGED <<used, succeeded, codec>>

ClientCreateAccount ==
    /\ accounts' = Commit(accounts,
           client_create_account(accounts, StrayKey, MovieAccountState_LEN))
    /\ UNCHANGED <<used, succeeded, codec>>

Next ==
    \/ AddReview
    \/ UpdateReview
    \/ AddComment
    \/ InitializeMint
    \/ CreateAssociatedTokenAccount
    \/ ClientCreateAccount

Spec == Init /\ [][Next]_vars

(***************************************************************************)
(* The conversions on their own: every record within the bounds is written *)
(* to a buffer and read back, and every instruction buffer is unpacked.    *)
(***************************************************************************)
\* "", "Up" and "e" with an acute accent (two bytes)
CodecStrings == {<<>>, <<85, 112>>, <<195, 169>>}

CodecKeys == {[i \in 1..32 |-> i], [i \in 1..32 |-> 255]}

CodecCounts ==
    {<<0, 0, 0, 0>>, <<1, 0, 0, 0>>, <<0, 0, 0, 1>>,
     <<65535, 65535, 65535, 65535>>}

CodecRatings == {5, 255}

ReviewRecords ==
    [kind : {"review"}, discriminator : {<<>>, ReviewTag},
     is_initialized : BOOLEAN, reviewer : CodecKeys, rating : CodecRatings,
     title : CodecStrings, description : CodecStrings]

CounterRecords ==
    [kind : {"counter"}, discriminator : {<<>>, CounterTag},
     is_initialized : BOOLEAN, counter : CodecCounts]

CommentRecords ==
    [kind : {"comment"}, discriminator : {<<>>, CommentTag},
     is_initialized : BOOLEAN, review : CodecKeys,
     commenter : {[i \in 1..32 |-> i]}, comment : CodecStrings,
     count : {<<0, 0, 0, 0>>, <<0, 0, 0, 1>>}]

\* the payloads of the instructions, well formed
ReviewPayloadBytes ==
    {write_string(t) \o <<r>> \o write_string(d)
        : t \in CodecStrings, r \in CodecRatings, d \in CodecStrings}

CommentPayloadBytes == {write_string(c) : c \in CodecStrings}

\* payloads that are cut short, that carry a byte too many, whose string is
\* not UTF-8, and the three bytes that follow the 3 of a borsh-encoded i32
Truncated(b) == {SubSeq(b, 1, n) : n \in 0..(Len(b) - 1)}

PayloadBytes ==
    ReviewPayloadBytes \cup CommentPayloadBytes
    \cup UNION {Truncated(b) : b \in CommentPayloadBytes}
    \cup {b \o <<0>> : b \in CommentPayloadBytes}
    \cup {<<1, 0, 0, 0, 255>>, <<0, 0, 0>>}

\* the first bytes of the instruction buffers
Tags == {0, 1, 2, 3, 4, 255}

InstructionBytes == {<<>>} \cup {<<t>> \o b : t \in Tags, b \in PayloadBytes}

\* MovieInstruction::unpack of an instruction buffer
Unpack ==
    \E b \in InstructionBytes :
        /\ codec' = [op |-> "unpack", rec |-> [kind |-> "none"], bytes |-> b,
                     out |-> unpack(b)]
        /\ UNCHANGED <<accounts, used, succeeded>>

\* a review serialized into a buffer and read back
StoreReview ==
    \E r \in ReviewRecords, pad \in 0..MaxPad :
        LET buf == encode(r) \o Zeros(pad) IN
        /\ codec' = [op |-> "store", rec |-> r, bytes |-> buf,
                     out |-> decode_review(buf)]
        /\ UNCHANGED <<accounts, used, succeeded>>

\* a counter serialized into a buffer and read back
StoreCounter ==
    \E r \in CounterRecords, pad \in 0..MaxPad :
        LET buf == encode(r) \o Zeros(pad) IN
        /\ codec' = [op |-> "store", rec |-> r, bytes |-> buf,
                     out |-> decode_counter(buf)]
        /\ UNCHANGED <<accounts, used, succeeded>>

\* a comment serialized into a buffer and read back
StoreComment ==
    \E r \in CommentRecords, pad \in 0..MaxPad :
        LET buf == encode(r) \o Zeros(pad) IN
        /\ codec' = [op |-> "store", rec |-> r, bytes |-> buf,
                     out |-> decode_comment(buf)]
        /\ UNCHANGED <<accounts, used, succeeded>>

CodecNext ==
    \/ Unpack
    \/ StoreReview
    \/ StoreCounter
    \/ StoreComment

CodecSpec == Init /\ [][CodecNext]_vars

(***************************************************************************)
(* Properties.  Each is stated over every instruction a client can send in *)
(* a reachable state: the handler is applied to the state's account table  *)
(* and its outcome (error, side-effect log, committed table) is examined.  *)
(***************************************************************************)
ValidRating(rating) == rating \in 1..5

IsInitializedReview(acc, key) ==
    /\ key \in DOMAIN acc
    /\ acc[key].owner = program_id
    /\ acc[key].data.kind = "review"
    /\ acc[key].data.is_initialized

\* an AddReview that a first call could have been: signed, addressed to the
\* derived review and counter addresses, with a valid rating and size
RepeatableAddReview(in) ==
    /\ in.is_signer
    /\ in.pda_account = ReviewPDA(in.initializer, in.title)
    /\ in.pda_counter = CounterPDA(in.pda_account)
    /\ ValidRating(in.rating)
    /\ MovieAccountState_get_account_size(in.title, in.description)
           <= MovieAccountState_LEN

\* the events of a log that create or write a buffer or call the ledger
Mutations(log) == {i \in 1..Len(log) : log[i].ev \in
                      {"create", "write", "initialize_mint", "mint_to"}}

Creations(log) == {i \in 1..Len(log) : log[i].ev = "create"}

\* C1: calling AddReview again for an (author, title) whose review record is
\* already initialized fails with AccountAlreadyInitialized, and the record
\* written by the first call is unchanged.
C1_SecondAddReviewAlreadyInitialized ==
    \A in \in AddReviewInputs :
        (RepeatableAddReview(in) /\ IsInitializedReview(accounts, in.pda_account))
        => LET r == add_movie_review(accounts, in) IN
           /\ r.err = "AccountAlreadyInitialized"
           /\ Commit(accounts, r)[in.pda_account] = accounts[in.pda_account]

\* C2: every successful AddComment increases the count of the supplied
\* counter record by exactly 1 and creates the comment record at
\* derive(reviewAddress, big-endian(count before the increment)); with a
\* counter at 0 the comment is at ordinal 0 and the counter becomes 1.
C2_AddCommentIncrementsByOne ==
    \A in \in AddCommentInputs :
        LET r == add_comment(accounts, in)
            before == CounterOf(accounts, in.pda_counter)
            post == Commit(accounts, r)
        IN  r.err = "Ok" =>
            /\ CounterOf(post, in.pda_counter) = before + 1
            /\ in.pda_comment = CommentPDA(in.pda_review, before)
            /\ in.pda_comment \notin DOMAIN accounts
            /\ in.pda_comment \in DOMAIN post
            /\ post[in.pda_comment].data.kind = "comment"
            /\ post[in.pda_comment].data.is_initialized
            /\ post[in.pda_comment].data.review = in.pda_review
            /\ (before = 0 =>
                   /\ in.pda_comment = CommentPDA(in.pda_review, 0)
                   /\ CounterOf(post, in.pda_counter) = 1)

\* a first comment has been added to a review created by AddReview
C2_Witness ==
    \E rv \in Reviews(accounts) :
        /\ CounterPDA(rv) \in DOMAIN accounts
        /\ CounterOf(accounts, CounterPDA(rv)) = 1
        /\ CommentPDA(rv, 0) \in CommentAccounts(accounts)
        /\ <<rv, 0>> \in used

\* C3: no successful AddComment under a review uses an ordinal that an
\* earlier successful AddComment under that review used, and the comment
\* of every used (review, ordinal) stays at its derived address.
C3_OrdinalsNeverReused ==
    /\ \A p \in used : CommentPDA(p[1], p[2]) \in CommentAccounts(accounts)
    /\ \A in \in AddCommentInputs :
           add_comment(accounts, in).err = "Ok"
           => <<in.pda_review, CounterOf(accounts, in.pda_counter)>> \notin used

\* a comment exists, a further AddComment at its ordinal is refused and one
\* at the next ordinal of the same review succeeds
C3_Witness ==
    \E p \in used :
        /\ \E in \in AddCommentInputs :
               /\ in.pda_review = p[1]
               /\ in.pda_comment = CommentPDA(p[1], p[2])
               /\ CounterOf(accounts, in.pda_counter) = p[2]
               /\ add_comment(accounts, in).err = "AccountAlreadyInUse"
        /\ \E in \in AddCommentInputs :
               /\ in.pda_review = p[1]
               /\ CounterOf(accounts, in.pda_counter) = p[2] + 1
               /\ add_comment(accounts, in).err = "Ok"

\* the errors with which a handler rejects its input
ValidationErrors ==
    {"MissingRequiredSignature", "InvalidPDA", "InvalidRating",
     "InvalidDataLength", "AccountAlreadyInitialized", "UninitializedAccount",
     "IncorrectAccount", "InvalidAccountOwner"}

\* C4 (as claimed): every AddReview whose rating is outside 1..=5 fails with
\* InvalidRating, and creates or modifies no buffer.
C4_InvalidRatingAlways ==
    \A in \in AddReviewInputs :
        ~ValidRating(in.rating)
        => LET r == add_movie_review(accounts, in) IN
           /\ r.err = "InvalidRating"
           /\ Mutations(r.log) = {}
           /\ r.acc = accounts

\* C4 (amended): every AddReview whose rating is outside 1..=5 fails and
\* creates or modifies no buffer; the error is InvalidRating when the
\* initializer signed and the review account is the derived address,
\* MissingRequiredSignature when the initializer did not sign, and InvalidPDA
\* when it signed and the review account is not the derived address.
C4_InvalidRatingRejected ==
    \A in \in AddReviewInputs :
        ~ValidRating(in.rating)
        => LET r == add_movie_review(accounts, in)
               derived == in.pda_account = ReviewPDA(in.initializer, in.title)
           IN
           /\ Mutations(r.log) = {}
           /\ r.acc = accounts
           /\ Commit(accounts, r) = accounts
           /\ r.err = IF ~in.is_signer THEN "MissingRequiredSignature"
                      ELSE IF ~derived THEN "InvalidPDA"
                      ELSE "InvalidRating"

\* an AddReview is refused for its rating alone: with a valid rating the
\* same invocation succeeds
C4_Witness ==
    \E in \in AddReviewInputs :
        /\ ~ValidRating(in.rating)
        /\ add_movie_review(accounts, in).err = "InvalidRating"
        /\ \E ok \in Ratings :
               add_movie_review(accounts, [in EXCEPT !.rating = ok]).err = "Ok"

\* C5 (as claimed): every AddReview with accountSize(title, body) above the
\* capacity fails with InvalidDataLength, before any account creation.
C5_TooLongAlways ==
    \A in \in AddReviewInputs :
        MovieAccountState_get_account_size(in.title, in.description)
            > MovieAccountState_LEN
        => LET r == add_movie_review(accounts, in) IN
           /\ r.err = "InvalidDataLength"
           /\ Creations(r.log) = {}

\* C5 (amended): every AddReview with accountSize(title, body) above the
\* capacity fails before any account creation; the error is
\* InvalidDataLength when the initializer signed, the review account is the
\* derived address and the rating is in 1..=5, and otherwise the error of
\* the first of those checks that fails.
C5_TooLongRejected ==
    \A in \in AddReviewInputs :
        MovieAccountState_get_account_size(in.title, in.description)
            > MovieAccountState_LEN
        => LET r == add_movie_review(accounts, in)
               derived == in.pda_account = ReviewPDA(in.initializer, in.title)
           IN
           /\ Creations(r.log) = {}
           /\ Mutations(r.log) = {}
           /\ Commit(accounts, r) = accounts
           /\ r.err = IF ~in.is_signer THEN "MissingRequiredSignature"
                      ELSE IF ~derived THEN "InvalidPDA"
                      ELSE IF ~ValidRating(in.rating) THEN "InvalidRating"
                      ELSE "InvalidDataLength"

\* an AddReview is refused for its size alone: one byte over the capacity,
\* and with a shorter body the same invocation succeeds
C5_Witness ==
    \E in \in AddReviewInputs :
        /\ MovieAccountState_get_account_size(in.title, in.description)
               = MovieAccountState_LEN + 1
        /\ add_movie_review(accounts, in).err = "InvalidDataLength"
        /\ \E d \in Descriptions :
               add_movie_review(accounts, [in EXCEPT !.description = d]).err = "Ok"

\* C6: within one invocation no buffer is created or written and no external
\* call is issued before every validation of the command has passed: an
\* invocation that ends in a validation error has mutated nothing.
C6_NoMutationBeforeValidation ==
    \A i \in Instructions(accounts) :
        LET r == process_instruction(accounts, i) IN
        r.err \in ValidationErrors => Mutations(r.log) = {}

C8_UpdateChangesOnlyRatingAndBody ==
    \A in \in UpdateReviewInputs(accounts) :
        LET r == update_movie_review(accounts, in)
            post == Commit(accounts, r)
        IN  r.err = "Ok" =>
            /\ DOMAIN post = DOMAIN accounts
            /\ \A k \in DOMAIN accounts :
                   k # in.pda_account => post[k] = accounts[k]
            /\ accounts[in.pda_account].data.kind = "review"
            /\ post[in.pda_account].owner = accounts[in.pda_account].owner
            /\ LET old == accounts[in.pda_account].data
                   new == post[in.pda_account].data
               IN  /\ new.kind = "review"
                   /\ new.len = old.len
                   /\ new.discriminator = old.discriminator
                   /\ new.is_initialized = old.is_initialized
                   /\ new.reviewer = old.reviewer
                   /\ new.title = old.title
                   /\ new.rating = in.rating
                   /\ new.description = in.description

\* an UpdateReview that carries another title than the stored one succeeds
\* and changes both the rating and the body, next to a counter and a comment
C8_Witness ==
    /\ CommentAccounts(accounts) # {}
    /\ \E in \in UpdateReviewInputs(accounts) :
           LET r == update_movie_review(accounts, in) IN
           /\ r.err = "Ok"
           /\ in.title # accounts[in.pda_account].data.title
           /\ in.rating # accounts[in.pda_account].data.rating
           /\ in.description # accounts[in.pda_account].data.description
           /\ CounterPDA(in.pda_account) \in DOMAIN accounts

\* C9: for an initialized review record and an invocation signed by its
\* author, UpdateReview with a rating outside 1..=5 fails with InvalidRating
\* and leaves the review record unchanged.
C9_UpdateInvalidRating ==
    \A in \in UpdateReviewInputs(accounts) :
        ( /\ IsInitializedReview(accounts, in.pda_account)
          /\ in.is_signer
          /\ in.initializer = accounts[in.pda_account].data.reviewer
          /\ ~ValidRating(in.rating) )
        => LET r == update_movie_review(accounts, in) IN
           /\ r.err = "InvalidRating"
           /\ Mutations(r.log) = {}
           /\ Commit(accounts, r) = accounts

\* the author's UpdateReview is refused for its rating alone
C9_Witness ==
    \E in \in UpdateReviewInputs(accounts) :
        /\ IsInitializedReview(accounts, in.pda_account)
        /\ in.is_signer
        /\ in.initializer = accounts[in.pda_account].data.reviewer
        /\ ~ValidRating(in.rating)
        /\ update_movie_review(accounts, in).err = "InvalidRating"
        /\ \E ok \in Ratings :
               update_movie_review(accounts, [in EXCEPT !.rating = ok]).err = "Ok"

\* C10: UpdateReview invoked with a signer against a program-owned buffer
\* that is still all zero (no record initialized in it) fails with
\* UninitializedAccount and mutates nothing.
C10_UpdateUninitialized ==
    \A in \in UpdateReviewInputs(accounts) :
        ( /\ in.is_signer
          /\ in.pda_account \in ProgramOwned(accounts)
          /\ accounts[in.pda_account].data.kind = "zero" )
        => LET r == update_movie_review(accounts, in) IN
           /\ r.err = "UninitializedAccount"
           /\ Mutations(r.log) = {}
           /\ Commit(accounts, r) = accounts

\* C11: UpdateReview succeeds only when the signer is the author stored in
\* the addressed review record; signed by any other identity it fails with
\* InvalidPDA and the record is unchanged.
C11_UpdateOnlyByStoredAuthor ==
    \A in \in UpdateReviewInputs(accounts) :
        IsInitializedReview(accounts, in.pda_account)
        => LET r == update_movie_review(accounts, in)
               stored == accounts[in.pda_account].data.reviewer
           IN
           /\ r.err = "Ok" => (in.is_signer /\ in.initializer = stored)
           /\ (in.is_signer /\ in.initializer # stored)
              => /\ r.err = "InvalidPDA"
                 /\ Commit(accounts, r)[in.pda_account]
                        = accounts[in.pda_account]

\* C12: an AddReview whose first account has not signed fails with
\* MissingRequiredSignature, and no buffer is created or modified.
C12_UnsignedAddReviewRejected ==
    \A in \in AddReviewInputs :
        ~in.is_signer
        => LET r == add_movie_review(accounts, in) IN
           /\ r.err = "MissingRequiredSignature"
           /\ Mutations(r.log) = {}
           /\ r.acc = accounts
           /\ Commit(accounts, r) = accounts

\* an AddReview is refused for the missing signature alone: signed, the same
\* invocation succeeds
C12_Witness ==
    \E in \in AddReviewInputs :
        /\ ~in.is_signer
        /\ add_movie_review(accounts, in).err = "MissingRequiredSignature"
        /\ add_movie_review(accounts, [in EXCEPT !.is_signer = TRUE]).err = "Ok"

\* C13: every initialized review record is stored at the address derived
\* from its own stored author and title, and a signed AddReview whose second
\* account is not derive(signer, title) fails with InvalidPDA.
C13_ReviewsAtDerivedAddress ==
    /\ \A k \in DOMAIN accounts :
           IsInitializedReview(accounts, k)
           => k = ReviewPDA(accounts[k].data.reviewer, accounts[k].data.title)
    /\ \A in \in AddReviewInputs :
           (in.is_signer
            /\ in.pda_account # ReviewPDA(in.initializer, in.title))
           => add_movie_review(accounts, in).err = "InvalidPDA"

\* the counter record of a review: initialized, at derive(review, "comment")
HasCounter(acc, review) ==
    /\ CounterPDA(review) \in DOMAIN acc
    /\ acc[CounterPDA(review)].owner = program_id
    /\ acc[CounterPDA(review)].data.kind = "counter"
    /\ acc[CounterPDA(review)].data.is_initialized

\* C14: an AddComment naming the review address R succeeds only if an
\* AddReview has created the review at R and its counter; otherwise it fails
\* and creates no comment record.
C14_AddCommentNeedsReview ==
    \A in \in AddCommentInputs :
        LET r == add_comment(accounts, in) IN
        /\ r.err = "Ok"
           => /\ IsInitializedReview(accounts, in.pda_review)
              /\ HasCounter(accounts, in.pda_review)
        /\ ~(IsInitializedReview(accounts, in.pda_review)
             /\ HasCounter(accounts, in.pda_review))
           => /\ r.err # "Ok"
              /\ CommentAccounts(Commit(accounts, r)) = CommentAccounts(accounts)

\* the initialized counter records of the table
InitializedCounters(acc) ==
    {k \in DOMAIN acc : /\ acc[k].owner = program_id
                        /\ acc[k].data.kind = "counter"
                        /\ acc[k].data.is_initialized}

\* C15: no invocation decreases the count of an initialized counter record;
\* the count changes only in a successful AddComment that is given the
\* record as its counter, and then by exactly +1; AddReview, UpdateReview and
\* InitializeMint leave it as it is.
C15_CounterMonotonic ==
    \A i \in Instructions(accounts) :
        LET r == process_instruction(accounts, i)
            post == Commit(accounts, r)
        IN  \A k \in InitializedCounters(accounts) :
                /\ k \in InitializedCounters(post)
                /\ post[k].data.counter >= accounts[k].data.counter
                /\ post[k].data.counter # accounts[k].data.counter
                   <=> (i.op = "AddComment" /\ r.err = "Ok"
                        /\ i.in.pda_counter = k)
                /\ post[k].data.counter # accounts[k].data.counter
                   => post[k].data.counter = accounts[k].data.counter + 1

\* a counter has been incremented, and in that state an AddReview of another
\* review and an UpdateReview can succeed
C15_Witness ==
    /\ \E k \in InitializedCounters(accounts) : accounts[k].data.counter = 1
    /\ \E in \in AddReviewInputs : add_movie_review(accounts, in).err = "Ok"
    /\ \E in \in UpdateReviewInputs(accounts) :
           update_movie_review(accounts, in).err = "Ok"

\* C16: every successful AddReview(title, rating, body) signed by A leaves
\* at derive(A, title) a review record with is_initialized, reviewer A and
\* the title, rating and body of the request, and at
\* derive(review, "comment") a counter record with is_initialized and
\* counter 0.
C16_AddReviewCreatesRecords ==
    \A in \in AddReviewInputs :
        LET r == add_movie_review(accounts, in)
            post == Commit(accounts, r)
            review == ReviewPDA(in.initializer, in.title)
            counter == CounterPDA(review)
        IN  r.err = "Ok" =>
            /\ in.is_signer
            /\ in.pda_account = review
            /\ review \notin DOMAIN accounts
            /\ review \in DOMAIN post
            /\ post[review].owner = program_id
            /\ post[review].data.kind = "review"
            /\ post[review].data.len = MovieAccountState_LEN
            /\ post[review].data.discriminator = MovieAccountState_DISCRIMINATOR
            /\ post[review].data.is_initialized
            /\ post[review].data.reviewer = in.initializer
            /\ post[review].data.title = in.title
            /\ post[review].data.rating = in.rating
            /\ post[review].data.description = in.description
            /\ counter \in DOMAIN post
            /\ post[counter].owner = program_id
            /\ post[counter].data.kind = "counter"
            /\ post[counter].data.discriminator = MovieCommentCounter_DISCRIMINATOR
            /\ post[counter].data.is_initialized
            /\ post[counter].data.counter = 0

\* an AddReview has left a review with its counter at 0, and another
\* AddReview can succeed
C16_Witness ==
    /\ \E k \in Reviews(accounts) :
           /\ IsInitializedReview(accounts, k)
           /\ HasCounter(accounts, k)
           /\ accounts[CounterPDA(k)].data.counter = 0
    /\ \E in \in AddReviewInputs : add_movie_review(accounts, in).err = "Ok"

\* C17: for a review created by AddReview of author A with title T, an
\* UpdateReview signed by A, addressed to derive(A, T), carrying T, a rating
\* in 1..=5 and a body with accountSize(T, body) within the capacity
\* succeeds, and the stored rating and body are then those of the request.
C17_AuthorUpdateSucceeds ==
    \A in \in UpdateReviewInputs(accounts) :
        ( /\ in.is_signer
          /\ in.pda_account = ReviewPDA(in.initializer, in.title)
          /\ IsInitializedReview(accounts, in.pda_account)
          /\ ValidRating(in.rating)
          /\ MovieAccountState_get_account_size(in.title, in.description)
                 <= MovieAccountState_LEN )
        => LET r == update_movie_review(accounts, in)
               post == Commit(accounts, r)
           IN
           /\ r.err = "Ok"
           /\ post[in.pda_account].data.rating = in.rating
           /\ post[in.pda_account].data.description = in.description
           /\ post[in.pda_account].data.title = in.title

\* the author's UpdateReview changes the rating and the body of its review,
\* to a body that fills the capacity
C17_Witness ==
    \E in \in UpdateReviewInputs(accounts) :
        /\ in.is_signer
        /\ in.pda_account = ReviewPDA(in.initializer, in.title)
        /\ IsInitializedReview(accounts, in.pda_account)
        /\ MovieAccountState_get_account_size(in.title, in.description)
               = MovieAccountState_LEN
        /\ in.rating # accounts[in.pda_account].data.rating
        /\ in.description # accounts[in.pda_account].data.description
        /\ update_movie_review(accounts, in).err = "Ok"

\* token_mint, mint_auth, user_ata and token_program are the expected ones
RewardAccountsRight(in, owner) ==
    /\ in.token_mint = MintPDA
    /\ in.mint_auth = MintAuthPDA
    /\ in.user_ata = get_associated_token_address(owner, in.token_mint)
    /\ in.token_program = TOKEN_PROGRAM_ID

\* the invocation got as far as the call of the ledger
ReachedMint(r) == r.err \in {"Ok", "TokenError"}

MismatchError(f) == IF f = "mint_auth" THEN "InvalidPDA" ELSE "IncorrectAccount"

RewardOwner(i) ==
    IF i.op = "AddComment" THEN i.in.commenter ELSE i.in.initializer

\* C19: the mint call of the ledger is issued only by an AddReview or an
\* AddComment whose mint is the derived mint, whose authority is the derived
\* mint authority, whose destination is the associated account of the
\* signer for that mint and whose ledger program is the expected one; it is
\* the last call of the invocation, to that destination.
C19_MintOnlyAfterChecks ==
    \A i \in Instructions(accounts) :
        LET r == process_instruction(accounts, i) IN
        \A j \in 1..Len(r.log) :
            r.log[j].ev = "invoke_mint_to"
            => /\ i.op \in {"AddMovieReview", "AddComment"}
               /\ RewardAccountsRight(i.in, RewardOwner(i))
               /\ r.log[j].key
                      = get_associated_token_address(RewardOwner(i), MintPDA)
               /\ \A l \in 1..(j - 1) : r.log[l].ev # "invoke_mint_to"
               /\ ReachedMint(r)

\* an AddComment issues the mint call and mints, and the same AddComment
\* with another destination account issues none
C19_Witness ==
    \E in \in AddCommentInputs :
        LET r == add_comment(accounts, in)
            bad == add_comment(accounts, WithFault(in, in.commenter, "user_ata"))
        IN  /\ r.err = "Ok"
            /\ \E j \in 1..Len(r.log) : r.log[j].ev = "invoke_mint_to"
            /\ \E j \in 1..Len(r.log) : r.log[j].ev = "mint_to"
            /\ bad.err # "Ok"
            /\ \A j \in 1..Len(bad.log) : bad.log[j].ev # "invoke_mint_to"

\* a signed InitializeMint with the derived mint and mint authority and the
\* expected ledger program
RightInitializeMint(in) ==
    /\ in.is_signer
    /\ in.token_mint = MintPDA
    /\ in.mint_auth = MintAuthPDA
    /\ in.token_program = TOKEN_PROGRAM_ID

\* C20: a signed InitializeMint with the derived mint and mint-authority
\* addresses and the expected ledger program succeeds when the mint address
\* holds no account, leaving an initialized mint of the ledger with the
\* derived authority; when the address holds an account it fails at its
\* account creation with AccountAlreadyInUse and the mint is unchanged.
C20_InitializeMintOnce ==
    \A in \in InitializeMintInputs :
        RightInitializeMint(in)
        => LET r == initialize_token_mint(accounts, in)
               post == Commit(accounts, r)
           IN  IF MintPDA \notin DOMAIN accounts
               THEN /\ r.err = "Ok"
                    /\ post[MintPDA].owner = TOKEN_PROGRAM_ID
                    /\ post[MintPDA].data.kind = "mint"
                    /\ post[MintPDA].data.is_initialized
                    /\ post[MintPDA].data.mint_authority = MintAuthPDA
                    /\ post[MintPDA].data.decimals = MintDecimals
                    /\ post[MintPDA].data.supply = ZeroAmount
               ELSE /\ r.err = "AccountAlreadyInUse"
                    /\ Mutations(r.log) = {}
                    /\ post = accounts

\* the mint has been initialized and has minted, and a further
\* InitializeMint is refused
C20_Witness ==
    /\ MintPDA \in DOMAIN accounts
    /\ accounts[MintPDA].data.kind = "mint"
    /\ accounts[MintPDA].data.supply # ZeroAmount
    /\ \E in \in InitializeMintInputs :
           /\ RightInitializeMint(in)
           /\ initialize_token_mint(accounts, in).err = "AccountAlreadyInUse"

\* the instruction the claim assigns to a buffer whose payload is well
\* formed
WellFormedInstruction(b) ==
    IF b = <<>> THEN {}
    ELSE
    {[kind |-> "AddMovieReview", title |-> t, rating |-> r, description |-> d]
        : t \in {x \in CodecStrings : \E r \in CodecRatings, d \in CodecStrings :
                    b = <<0>> \o write_string(x) \o <<r>> \o write_string(d)},
          r \in {x \in CodecRatings : \E t \in CodecStrings, d \in CodecStrings :
                    b = <<0>> \o write_string(t) \o <<x>> \o write_string(d)},
          d \in {x \in CodecStrings : \E t \in CodecStrings, r \in CodecRatings :
                    b = <<0>> \o write_string(t) \o <<r>> \o write_string(x)}}
    \cup
    {[kind |-> "UpdateMovieReview", title |-> t, rating |-> r, description |-> d]
        : t \in {x \in CodecStrings : \E r \in CodecRatings, d \in CodecStrings :
                    b = <<1>> \o write_string(x) \o <<r>> \o write_string(d)},
          r \in {x \in CodecRatings : \E t \in CodecStrings, d \in CodecStrings :
                    b = <<1>> \o write_string(t) \o <<x>> \o write_string(d)},
          d \in {x \in CodecStrings : \E t \in CodecStrings, r \in CodecRatings :
                    b = <<1>> \o write_string(t) \o <<r>> \o write_string(x)}}
    \cup {[kind |-> "AddComment", comment |-> c]
            : c \in {x \in CodecStrings : b = <<2>> \o write_string(x)}}
    \cup {[kind |-> "InitializeMint"] : x \in {y \in {3} : b = <<3>>}}

\* C21: unpack maps a first byte of 0, 1, 2, 3 followed by a well-formed
\* payload to AddMovieReview, UpdateMovieReview, AddComment, InitializeMint
\* with the fields of the payload, and returns InvalidInstructionData exactly
\* when the buffer is empty, the first byte is another value or the payload
\* does not decode.
C21_UnpackAllFourTags ==
    codec.op = "unpack" =>
        LET want == WellFormedInstruction(codec.bytes) IN
        IF want # {}
        THEN codec.out.ok /\ codec.out.v \in want
        ELSE ~codec.out.ok /\ codec.out.v.kind = "InvalidInstructionData"

\* C23: every review, counter and comment record written to a buffer that
\* holds its encoding is read back unchanged: strings with their 4-byte
\* little-endian length, the bool, the 32-byte keys, the rating byte and the
\* 64-bit counts.
C23_RoundTrip ==
    codec.op = "store" =>
        /\ codec.out.ok
        /\ codec.out.v = codec.rec
        /\ SubSeq(codec.bytes, 1, Len(encode(codec.rec))) = encode(codec.rec)

\* an initialized comment with a two-byte character, a count above 2^48 and
\* bytes after it in the buffer has been written and read back
C23_Witness ==
    /\ codec.op = "store"
    /\ codec.rec.kind = "comment"
    /\ codec.rec.is_initialized
    /\ codec.rec.comment = <<195, 169>>
    /\ codec.rec.count = <<0, 0, 0, 1>>
    /\ Len(codec.bytes) > Len(encode(codec.rec))
    /\ codec.out.ok

\* the initialized records of the table, each with its kind
InitializedRecords(acc) ==
    {<<k, acc[k].data.kind>> : k \in
        {j \in DOMAIN acc : /\ acc[j].owner = program_id
                            /\ acc[j].data.kind \in {"review", "counter", "comment"}
                            /\ acc[j].data.is_initialized}}

\* the keys an invocation's log creates, and the keys it writes
CreatedKeys(log) == {log[i].key : i \in Creations(log)}
WrittenKeys(log) == {log[i].key : i \in {j \in 1..Len(log) : log[j].ev = "write"}}

\* C22: a record that has become initialized is never created again and
\* never returns to uninitialized or absent, whatever instruction follows;
\* and every write of a record is guarded by that record's initialized flag,
\* so that a committed write never leaves a record whose flag is unset.
C22_InitializedOnceAndChecked ==
    \A i \in Instructions(accounts) :
        LET r == process_instruction(accounts, i)
            post == Commit(accounts, r)
        IN  /\ InitializedRecords(accounts) \subseteq InitializedRecords(post)
            /\ r.err = "Ok"
               => /\ \A p \in InitializedRecords(accounts) :
                         p[1] \notin CreatedKeys(r.log)
                  /\ \A k \in WrittenKeys(r.log) :
                         post[k].data.is_initialized

\* C24: an AddComment succeeds only if the account given as its counter is
\* the initialized counter record of this program at
\* derive(reviewAddress, "comment") for the review address of the same
\* invocation; with any other account as counter it fails and the account
\* table is as before.
C24_AddCommentNeedsItsCounter ==
    \A in \in AddCommentInputs :
        LET r == add_comment(accounts, in) IN
        ~(in.pda_counter = CounterPDA(in.pda_review)
          /\ HasCounter(accounts, in.pda_review))
        => /\ r.err # "Ok"
           /\ Commit(accounts, r) = accounts

\* the initialized comment records that name the review R
CommentsOf(acc, R) ==
    {k \in CommentAccounts(acc) : /\ acc[k].owner = program_id
                                  /\ acc[k].data.is_initialized
                                  /\ acc[k].data.review = R}

\* C25: for every initialized review R the count in the counter at
\* derive(R, "comment") is the number of initialized comment records whose
\* review address is R, and those comments are at the ordinals 0 .. count-1.
C25_CountMatchesComments ==
    \A R \in ReviewAddrs :
        IsInitializedReview(accounts, R)
        => /\ HasCounter(accounts, R)
           /\ LET count == accounts[CounterPDA(R)].data.counter IN
              /\ count = Cardinality(CommentsOf(accounts, R))
              /\ CommentsOf(accounts, R)
                    = {CommentPDA(R, n) : n \in 0..(count - 1)}

\* C26: a review record is initialized if and only if the counter record at
\* derive(review, "comment") is initialized; every initialized counter is
\* the counter of a review; a successful AddReview commits both records and
\* a failed one neither; UpdateReview, AddComment and InitializeMint neither
\* create nor remove an initialized counter.
C26_ReviewIffCounter ==
    /\ \A R \in ReviewAddrs :
           IsInitializedReview(accounts, R) <=> HasCounter(accounts, R)
    /\ \A k \in DOMAIN accounts :
           IsInitializedReview(accounts, k) => k \in ReviewAddrs
    /\ InitializedCounters(accounts)
           \subseteq {CounterPDA(R) : R \in ReviewAddrs}
    /\ \A i \in Instructions(accounts) :
           LET r == process_instruction(accounts, i)
               post == Commit(accounts, r)
           IN  /\ i.op # "AddMovieReview"
                  => InitializedCounters(post) = InitializedCounters(accounts)
               /\ (i.op = "AddMovieReview" /\ r.err = "Ok")
                  => /\ ~IsInitializedReview(accounts, i.in.pda_account)
                     /\ IsInitializedReview(post, i.in.pda_account)
                     /\ InitializedCounters(post)
                            = InitializedCounters(accounts)
                              \cup {CounterPDA(i.in.pda_account)}

\* a review and its counter exist, a comment has been added through that
\* counter, and an AddReview of another review fails after it has written
\* its review record
C26_Witness ==
    /\ \E R \in ReviewAddrs :
           /\ IsInitializedReview(accounts, R)
           /\ HasCounter(accounts, R)
           /\ accounts[CounterPDA(R)].data.counter = 1
    /\ \E in \in AddReviewInputs :
           LET r == add_movie_review(accounts, in) IN
           /\ r.err # "Ok"
           /\ in.pda_account \in WrittenKeys(r.log)
           /\ ~IsInitializedReview(Commit(accounts, r), in.pda_account)

\* C27: every initialized review record has a rating in 1..=5.
C27_RatingInRange ==
    \A k \in DOMAIN accounts :
        IsInitializedReview(accounts, k)
        => ValidRating(accounts[k].data.rating)

\* a review with the highest rating exists; an update of it to the lowest
\* rating succeeds, and AddReview and UpdateReview with the ratings 0 and 6
\* are refused
C27_Witness ==
    /\ \E k \in DOMAIN accounts :
           /\ IsInitializedReview(accounts, k)
           /\ accounts[k].data.rating = 5
           /\ \E in \in UpdateReviewInputs(accounts) :
                  /\ in.pda_account = k
                  /\ in.rating = 1
                  /\ update_movie_review(accounts, in).err = "Ok"
           /\ \E in \in UpdateReviewInputs(accounts) :
                  /\ in.pda_account = k
                  /\ in.rating = 0
                  /\ update_movie_review(accounts, in).err = "InvalidRating"
    /\ \E in \in AddReviewInputs :
           /\ in.rating = 6
           /\ add_movie_review(accounts, in).err = "InvalidRating"

\* C28: the encoding of every initialized review record, with its stored
\* title and body, is at most the 1000 bytes of its buffer: no committed
\* review is cut short.
C28_ReviewFitsCapacity ==
    \A k \in DOMAIN accounts :
        IsInitializedReview(accounts, k)
        => /\ accounts[k].data.len = MovieAccountState_LEN
           /\ EncodedSize(accounts[k].data) <= MovieAccountState_LEN

\* a review fills its buffer to the last byte, and an update whose record
\* would be one byte longer than the buffer is refused by the write itself
C28_Witness ==
    \E k \in DOMAIN accounts :
        /\ IsInitializedReview(accounts, k)
        /\ EncodedSize(accounts[k].data) = MovieAccountState_LEN
        /\ \E in \in UpdateReviewInputs(accounts) :
               /\ in.pda_account = k
               /\ EncodedSize(update_fields(accounts[k].data, in))
                      = MovieAccountState_LEN + 1
               /\ update_movie_review(accounts, in).err = "BorshIoError"

\* C29: an UpdateReview that passes the checks before the size check (signed
\* by the author, addressed to the initialized review, rating in 1..=5)
\* fails with InvalidDataLength exactly when the stored title with the new
\* body exceeds the capacity, whatever title the request carries.
C29_UpdateSizeOfStoredTitle ==
    \A in \in UpdateReviewInputs(accounts) :
        ( /\ in.is_signer
          /\ IsInitializedReview(accounts, in.pda_account)
          /\ in.pda_account
                = ReviewPDA(in.initializer, accounts[in.pda_account].data.title)
          /\ ValidRating(in.rating) )
        => ( update_movie_review(accounts, in).err = "InvalidDataLength"
             <=> MovieAccountState_get_account_size(
                     accounts[in.pda_account].data.title, in.description)
                 > MovieAccountState_LEN )

\* the supply of the program's mint (nothing before the mint exists)
TotalMinted(acc) ==
    IF MintPDA \in DOMAIN acc /\ acc[MintPDA].data.kind = "mint"
    THEN acc[MintPDA].data.supply
    ELSE ZeroAmount

\* the mintings of an invocation's log
Mintings(log) == {j \in 1..Len(log) : log[j].ev = "mint_to"}

\* C30: the supply of the mint is 10 tokens for every successful AddReview
\* plus 5 tokens for every successful AddComment; a successful AddReview or
\* AddComment mints once, that amount, to the associated token account of its
\* signer; UpdateReview and InitializeMint mint nothing.
C30_MintedIsRewards ==
    /\ TotalMinted(accounts)
           = [giga |-> 10 * succeeded.reviews + 5 * succeeded.comments,
              units |-> 0]
    /\ \A i \in Instructions(accounts) :
           LET r == process_instruction(accounts, i)
               post == Commit(accounts, r)
               amount == IF i.op = "AddMovieReview" THEN 10 ELSE 5
           IN  IF i.op \in {"AddMovieReview", "AddComment"} /\ r.err = "Ok"
               THEN /\ Cardinality(Mintings(r.log)) = 1
                    /\ \A j \in Mintings(r.log) :
                           /\ r.log[j].key = get_associated_token_address(
                                                 RewardOwner(i), MintPDA)
                           /\ r.log[j].amount = amount
                    /\ TotalMinted(post)
                           = AddAmount(TotalMinted(accounts),
                                       [giga |-> amount, units |-> 0])
               ELSE TotalMinted(post) = TotalMinted(accounts)

\* one review and one comment have been rewarded: 15 tokens are in supply
C30_Witness ==
    /\ succeeded = [reviews |-> 1, comments |-> 1]
    /\ TotalMinted(accounts) = [giga |-> 15, units |-> 0]
    /\ \E in \in UpdateReviewInputs(accounts) :
           update_movie_review(accounts, in).err = "Ok"

====
